---- MODULE Spec2Model ----
(***************************************************************************)
(* Model of notebooks/ngram_model.ipynb: the Corpus class (train/test       *)
(* split by random draws, n-gram extraction), the NgramModel class (learn,  *)
(* predict) and the cross_ent evaluation function.                          *)
(*                                                                          *)
(* Tokens are strings.  A sentence is a sequence of tokens, the document a  *)
(* sequence of sentences.  np.random.random() is a stream of samples read   *)
(* at a position; np.random.seed(0) puts the position back to the start.    *)
(* The generator is periodic (here with the short period StreamLen).        *)
(* Samples and test_percentage are in tenths.  A probability v/total_count  *)
(* is kept as the pair <<v, total_count>>, and np.log2 is not interpreted:  *)
(* the running total of cross_ent is the sequence of the probabilities whose*)
(* -log2 was added, in the order they were added.                           *)
(***************************************************************************)
EXTENDS Integers, Sequences, FiniteSets

\* ---------------------------------------------------------------- bounds
MaxDocLen == 2        \* sentences in a document
StreamLen == 3        \* period of the random stream
MaxCtxLen == 2        \* tokens in a context handed to predict

\* ------------------------------------------------------ program constants
test_percentage == 1  \* Corpus.__init__ default 0.1, in tenths
MinSentLen == 10      \* get_ngrams: sentences with len(sent) < 10 are skipped

\* ------------------------------------------------------------- inputs
\* SentDistinct and SentRepeat have exactly MinSentLen tokens, SentShort has
\* one fewer.
SentDistinct == <<"a", "b", "c", "d", "e", "f", "g", "h", "i", "j">>
SentRepeat == <<"a", "b", "a", "b", "a", "c", "a", "b", "a", "b">>
SentShort == <<"x", "a", "b", "x", "a", "b", "x", "a", "b">>
SentencePool == {SentDistinct, SentRepeat, SentShort}

SeqsUpTo(S, k) == UNION {[1..m -> S] : m \in 0..k}

Docs == SeqsUpTo(SentencePool, MaxDocLen)
Samples == {test_percentage - 1, test_percentage}
Streams == [0..(StreamLen - 1) -> Samples]
ModelOrders == {1, 2, 3}
Orders == ModelOrders \cup {MinSentLen + 1}
CtxTokens == {"a", "b"}
Contexts == SeqsUpTo(CtxTokens, MaxCtxLen)

VARIABLES
    doc,        \* Corpus.doc: the sentences of the document
    stream,     \* the samples np.random.random() returns, by generator state
    rpos,       \* state of the random generator: position in the stream
    n,          \* NgramModel.n
    learned,    \* FALSE while NgramModel.ngrams and .alphabet are None
    ngrams,     \* NgramModel.ngrams: Counter, n-gram -> count
    alphabet,   \* NgramModel.alphabet: set of tokens
    prev,       \* the call before the last, if both are learn or get_sentences
    call,       \* the last call: operation and arguments
    ret,        \* what the last call returned or raised
    ce          \* the frame of a running cross_ent call

vars == <<doc, stream, rpos, n, learned, ngrams, alphabet, prev, call, ret, ce>>

\* ------------------------------------------------------------ helpers
Range(s) == {s[i] : i \in 1..Len(s)}

RECURSIVE Flatten(_)
Flatten(ss) == IF ss = <<>> THEN <<>> ELSE ss[1] \o Flatten(Tail(ss))

\* np.random.random() in generator state p
Sample(p) == stream[p % StreamLen]

\* ------------------------------------------------------------- Corpus
\* Corpus.get_words: every token of the document, in document order
get_words == Flatten(doc)

\* The condition of get_sentences for one sentence, evaluated in generator
\* state p as Python evaluates it (and / or short-circuit, each call of
\* np.random.random() is a new draw).
Decide(p, test) ==
    IF Sample(p) >= test_percentage /\ ~test
    THEN [incl |-> TRUE, used |-> 1]
    ELSE [incl |-> (Sample(p + 1) < test_percentage /\ test), used |-> 2]

\* Corpus.get_sentences(test), sentences i..len(doc), from generator state p:
\* the indices of the yielded sentences and the number of draws made.
RECURSIVE get_sentences(_, _, _)
get_sentences(i, p, test) ==
    IF i > Len(doc) THEN [sents |-> <<>>, drawn |-> 0]
    ELSE LET d == Decide(p, test)
             r == get_sentences(i + 1, p + d.used, test)
         IN [sents |-> (IF d.incl THEN <<i>> ELSE <<>>) \o r.sents,
             drawn |-> d.used + r.drawn]

\* get_ngrams: `if len(sent) < 10: continue`
Skipped(sent) == Len(sent) < MinSentLen

\* A faulty break that also drops the last n-gram of a sentence
Breaks_off_by_one(sent, pos, k) == Len(sent) - pos <= k

\* get_ngrams: `if len(sent)-pos < n: break`
Breaks(sent, pos, k) == Len(sent) - pos < k

\* The generator Corpus.get_ngrams(k, test), resumed: si is the sentence the
\* loop over get_sentences stands at (0 before the first), active tells
\* whether that sentence entered the inner loop, pos is the next position
\* of the inner loop (0-based), p the generator state of the random source.
\* Returns the next n-gram yielded and the frame after it, or done.
RECURSIVE Pull(_, _, _, _, _, _)
Pull(si, active, pos, p, k, test) ==
    IF active /\ pos < Len(doc[si]) /\ ~Breaks(doc[si], pos, k)
    THEN [done |-> FALSE, ngram |-> SubSeq(doc[si], pos + 1, pos + k),
          si |-> si, pos |-> pos + 1, p |-> p]
    ELSE IF si + 1 > Len(doc)
    THEN [done |-> TRUE, ngram |-> <<>>, si |-> si + 1, pos |-> 0, p |-> p]
    ELSE LET d == Decide(p, test)
         IN Pull(si + 1, d.incl /\ ~Skipped(doc[si + 1]), 0,
                 p + d.used, k, test)

\* The rest of the generator, run to its end: the n-grams it yields and the
\* generator state of the random source it ends in.
RECURSIVE Drain(_, _, _, _, _, _)
Drain(si, active, pos, p, k, test) ==
    LET r == Pull(si, active, pos, p, k, test)
    IN IF r.done THEN [ngrams |-> <<>>, p |-> r.p]
       ELSE LET rest == Drain(r.si, TRUE, r.pos, r.p, k, test)
            IN [ngrams |-> <<r.ngram>> \o rest.ngrams, p |-> rest.p]

\* list(corpus.get_ngrams(k, test)) from generator state p
get_ngrams(k, test, p) == Drain(0, FALSE, 0, p, k, test)

\* ----------------------------------------------------------- NgramModel
\* collections.Counter(iterable)
Counter(seq) ==
    [g \in Range(seq) |-> Cardinality({i \in 1..Len(seq) : seq[i] = g})]

\* Counter.__getitem__: a missing key counts 0 and is not inserted
Count(counter, key) == IF key \in DOMAIN counter THEN counter[key] ELSE 0

\* Python's seq[k:]
PySliceFrom(seq, k) ==
    LET start == IF k < 0
                 THEN (IF Len(seq) + k < 0 THEN 0 ELSE Len(seq) + k)
                 ELSE (IF k > Len(seq) THEN Len(seq) ELSE k)
    IN SubSeq(seq, start + 1, Len(seq))

\* sum(matches.values(), 0.0)
RECURSIVE SumValues(_)
SumValues(f) ==
    IF DOMAIN f = {} THEN 0
    ELSE LET x == CHOOSE y \in DOMAIN f : TRUE
         IN f[x] + SumValues([y \in DOMAIN f \ {x} |-> f[y]])

\* The context predict looks up, after its truncation
Truncated(context) ==
    IF Len(context) >= n THEN PySliceFrom(context, 1 - n) ELSE context

\* A faulty loop that keeps the words with count 0 too
Matches_keep_zero(context) ==
    [word \in alphabet |-> Count(ngrams, context \o <<word>>)]

\* The loop of predict over the alphabet
Matches(context) ==
    LET kept == {word \in alphabet : Count(ngrams, context \o <<word>>) > 0}
    IN [word \in kept |-> Count(ngrams, context \o <<word>>)]

Distribution(matches) ==
    LET total_count == SumValues(matches)
    IN [word \in DOMAIN matches |-> <<matches[word], total_count>>]

\* A faulty predict that asks for one token too many
predict_off_by_one(context) ==
    IF Len(context) < n THEN [kind |-> "ValueError", distr |-> <<>>]
    ELSE IF ~learned THEN [kind |-> "TypeError", distr |-> <<>>]
    ELSE [kind |-> "value", distr |-> Distribution(Matches(Truncated(context)))]

\* A faulty predict that divides by the total before looking at the matches
predict_divides_first(context) ==
    IF Len(context) < n - 1 THEN [kind |-> "ValueError", distr |-> <<>>]
    ELSE IF ~learned THEN [kind |-> "TypeError", distr |-> <<>>]
    ELSE IF SumValues(Matches(Truncated(context))) = 0
    THEN [kind |-> "ZeroDivisionError", distr |-> <<>>]
    ELSE [kind |-> "value", distr |-> Distribution(Matches(Truncated(context)))]

\* NgramModel.predict(context): the mapping returned or the error raised.
\* Iterating an alphabet that is still None raises TypeError.
predict(context) ==
    IF Len(context) < n - 1 THEN [kind |-> "ValueError", distr |-> <<>>]
    ELSE IF ~learned THEN [kind |-> "TypeError", distr |-> <<>>]
    ELSE [kind |-> "value", distr |-> Distribution(Matches(Truncated(context)))]

\* ------------------------------------------------------------- records
NoCall == [op |-> "none", k |-> 0, test |-> FALSE, ctx |-> <<>>, start |-> 0]
NoRet == [kind |-> "none", distr |-> <<>>, sents |-> <<>>, ngrams |-> <<>>,
          drawn |-> 0, total |-> <<>>, count |-> 0]
NoPrev == [op |-> "none", test |-> FALSE, start |-> 0, sents |-> <<>>,
           drawn |-> 0, ngrams |-> <<>>, alphabet |-> {}]
Idle == [pc |-> "idle", k |-> 0, test |-> FALSE, si |-> 0, active |-> FALSE,
         pos |-> 0, total |-> <<>>, count |-> 0]

\* The state after `np.random.seed(0)`, `corpus = Corpus(text)` and
\* `model = NgramModel()` (n defaults to 3).
Init ==
    /\ doc \in Docs
    /\ stream \in Streams
    /\ rpos = 0
    /\ n = 3
    /\ learned = FALSE
    /\ ngrams = <<>>
    /\ alphabet = {}
    /\ prev = NoPrev
    /\ call = NoCall
    /\ ret = NoRet
    /\ ce = Idle

\* np.random.seed(0)
seed ==
    /\ ce.pc = "idle"
    /\ rpos' = 0
    /\ UNCHANGED <<doc, stream, n, learned, ngrams, alphabet, prev, call, ret, ce>>

\* model = NgramModel(n=k)
NgramModel(k) ==
    /\ ce.pc = "idle"
    /\ n' = k
    /\ learned' = FALSE
    /\ ngrams' = <<>>
    /\ alphabet' = {}
    /\ prev' = NoPrev
    /\ call' = [NoCall EXCEPT !.op = "NgramModel", !.k = k]
    /\ ret' = NoRet
    /\ UNCHANGED <<doc, stream, rpos, ce>>

\* list(corpus.get_sentences(test))
CallGetSentences(test) ==
    /\ ce.pc = "idle"
    /\ LET r == get_sentences(1, rpos, test)
       IN /\ rpos' = (rpos + r.drawn) % StreamLen
          /\ ret' = [NoRet EXCEPT !.kind = "value", !.sents = r.sents,
                                  !.drawn = r.drawn]
    /\ call' = [NoCall EXCEPT !.op = "get_sentences", !.test = test,
                              !.start = rpos]
    /\ prev' = IF call.op = "get_sentences"
               THEN [NoPrev EXCEPT !.op = "get_sentences", !.test = call.test,
                                   !.start = call.start, !.sents = ret.sents,
                                   !.drawn = ret.drawn]
               ELSE NoPrev
    /\ UNCHANGED <<doc, stream, n, learned, ngrams, alphabet, ce>>

\* list(corpus.get_ngrams(k, test))
CallGetNgrams(k, test) ==
    /\ ce.pc = "idle"
    /\ LET r == get_ngrams(k, test, rpos)
       IN /\ rpos' = r.p % StreamLen
          /\ ret' = [NoRet EXCEPT !.kind = "value", !.ngrams = r.ngrams,
                                  !.drawn = r.p - rpos]
    /\ call' = [NoCall EXCEPT !.op = "get_ngrams", !.k = k, !.test = test,
                              !.start = rpos]
    /\ prev' = NoPrev
    /\ UNCHANGED <<doc, stream, n, learned, ngrams, alphabet, ce>>

\* A faulty learn that adds the new counts to the table (Counter.update)
learn_additive ==
    /\ ce.pc = "idle"
    /\ LET r == get_ngrams(n, FALSE, rpos)
           new == Counter(r.ngrams)
       IN /\ ngrams' = [g \in DOMAIN ngrams \cup DOMAIN new |->
                            Count(ngrams, g) + Count(new, g)]
          /\ rpos' = r.p % StreamLen
    /\ alphabet' = alphabet \cup Range(get_words)
    /\ learned' = TRUE
    /\ call' = [NoCall EXCEPT !.op = "learn", !.start = rpos]
    /\ ret' = [NoRet EXCEPT !.kind = "value"]
    /\ prev' = IF call.op = "learn"
               THEN [NoPrev EXCEPT !.op = "learn", !.start = call.start,
                                   !.ngrams = ngrams, !.alphabet = alphabet]
               ELSE NoPrev
    /\ UNCHANGED <<doc, stream, n, ce>>

\* model.learn(corpus)
learn ==
    /\ ce.pc = "idle"
    /\ LET r == get_ngrams(n, FALSE, rpos)
       IN /\ ngrams' = Counter(r.ngrams)
          /\ rpos' = r.p % StreamLen
    /\ alphabet' = Range(get_words)
    /\ learned' = TRUE
    /\ call' = [NoCall EXCEPT !.op = "learn", !.start = rpos]
    /\ ret' = [NoRet EXCEPT !.kind = "value"]
    /\ prev' = IF call.op = "learn"
               THEN [NoPrev EXCEPT !.op = "learn", !.start = call.start,
                                   !.ngrams = ngrams, !.alphabet = alphabet]
               ELSE NoPrev
    /\ UNCHANGED <<doc, stream, n, ce>>

\* model.predict(context)
CallPredict(context) ==
    /\ ce.pc = "idle"
    /\ LET r == predict(context)
       IN ret' = [NoRet EXCEPT !.kind = r.kind, !.distr = r.distr]
    /\ call' = [NoCall EXCEPT !.op = "predict", !.ctx = context]
    /\ prev' = NoPrev
    /\ UNCHANGED <<doc, stream, rpos, n, learned, ngrams, alphabet, ce>>

\* cross_ent(model, corpus, k, test): entry, up to the for statement
cross_ent_call(k, test) ==
    /\ ce.pc = "idle"
    /\ ce' = [Idle EXCEPT !.pc = "loop", !.k = k, !.test = test]
    /\ call' = [NoCall EXCEPT !.op = "cross_ent", !.k = k, !.test = test,
                              !.start = rpos]
    /\ ret' = NoRet
    /\ prev' = NoPrev
    /\ UNCHANGED <<doc, stream, rpos, n, learned, ngrams, alphabet>>

\* A faulty iteration that counts the n-grams it skips
cross_ent_iter_counts_all ==
    /\ ce.pc = "loop"
    /\ LET g == Pull(ce.si, ce.active, ce.pos, rpos, ce.k, ce.test)
       IN /\ ~g.done
          /\ rpos' = g.p % StreamLen
          /\ LET context == SubSeq(g.ngram, 1, ce.k - 1)
                 pred == g.ngram[ce.k]
                 r == predict(context)
             IN IF r.kind # "value"
                THEN /\ ce' = Idle
                     /\ ret' = [NoRet EXCEPT !.kind = r.kind]
                ELSE /\ ce' = [ce EXCEPT
                           !.si = g.si, !.active = TRUE, !.pos = g.pos,
                           !.total = IF pred \in DOMAIN r.distr
                                     THEN Append(@, r.distr[pred]) ELSE @,
                           !.count = @ + 1]
                     /\ ret' = ret
    /\ UNCHANGED <<doc, stream, n, learned, ngrams, alphabet, prev, call>>

\* One iteration of the loop of cross_ent: the generator yields an n-gram,
\* predict is asked, and the n-gram is scored or skipped.  An error raised by
\* predict leaves cross_ent.
cross_ent_iter ==
    /\ ce.pc = "loop"
    /\ LET g == Pull(ce.si, ce.active, ce.pos, rpos, ce.k, ce.test)
       IN /\ ~g.done
          /\ rpos' = g.p % StreamLen
          /\ LET context == SubSeq(g.ngram, 1, ce.k - 1)
                 pred == g.ngram[ce.k]
                 r == predict(context)
             IN IF r.kind # "value"
                THEN /\ ce' = Idle
                     /\ ret' = [NoRet EXCEPT !.kind = r.kind]
                ELSE /\ ce' = [ce EXCEPT
                           !.si = g.si, !.active = TRUE, !.pos = g.pos,
                           !.total = IF pred \in DOMAIN r.distr
                                     THEN Append(@, r.distr[pred]) ELSE @,
                           !.count = IF pred \in DOMAIN r.distr
                                     THEN @ + 1 ELSE @]
                     /\ ret' = ret
    /\ UNCHANGED <<doc, stream, n, learned, ngrams, alphabet, prev, call>>

\* A faulty return that answers (0.0, 0) when nothing was scored
cross_ent_return_zero ==
    /\ ce.pc = "loop"
    /\ LET g == Pull(ce.si, ce.active, ce.pos, rpos, ce.k, ce.test)
       IN /\ g.done
          /\ rpos' = g.p % StreamLen
    /\ ret' = [NoRet EXCEPT !.kind = "value", !.total = ce.total,
                            !.count = ce.count]
    /\ ce' = Idle
    /\ UNCHANGED <<doc, stream, n, learned, ngrams, alphabet, prev, call>>

\* The generator is exhausted: `cross_ent /= count` and the return
cross_ent_return ==
    /\ ce.pc = "loop"
    /\ LET g == Pull(ce.si, ce.active, ce.pos, rpos, ce.k, ce.test)
       IN /\ g.done
          /\ rpos' = g.p % StreamLen
    /\ ret' = IF ce.count = 0
              THEN [NoRet EXCEPT !.kind = "ZeroDivisionError"]
              ELSE [NoRet EXCEPT !.kind = "value", !.total = ce.total,
                                 !.count = ce.count]
    /\ ce' = Idle
    /\ UNCHANGED <<doc, stream, n, learned, ngrams, alphabet, prev, call>>

Next ==
    \/ seed
    \/ \E k \in ModelOrders : NgramModel(k)
    \/ \E test \in BOOLEAN : CallGetSentences(test)
    \/ \E k \in Orders, test \in BOOLEAN : CallGetNgrams(k, test)
    \/ learn
    \/ \E context \in Contexts : CallPredict(context)
    \/ \E k \in ModelOrders, test \in BOOLEAN : cross_ent_call(k, test)
    \/ cross_ent_iter
    \/ cross_ent_return

Spec == Init /\ [][Next]_vars

\* The notebook seeds the random source once, before anything else.  The
\* specifications below are the parts of the program the claims are about;
\* those whose claims speak of a replayed random source can seed it again.

\* The corpus alone: enumerating sentences and n-grams
NextCorpus ==
    \/ seed
    \/ \E test \in BOOLEAN : CallGetSentences(test)
    \/ \E k \in Orders, test \in BOOLEAN : CallGetNgrams(k, test)

SpecCorpus == Init /\ [][NextCorpus]_vars

\* Training: models are built and trained, the random source may be replayed
NextLearn ==
    \/ seed
    \/ \E k \in ModelOrders : NgramModel(k)
    \/ learn

SpecLearn == Init /\ [][NextLearn]_vars

\* Prediction: models are built, trained and asked
NextPredict ==
    \/ \E k \in ModelOrders : NgramModel(k)
    \/ learn
    \/ \E context \in Contexts : CallPredict(context)

SpecPredict == Init /\ [][NextPredict]_vars

\* Evaluation: eval(n) builds and trains a model, then calls cross_ent
NextEval ==
    \/ \E k \in ModelOrders : NgramModel(k)
    \/ learn
    \/ \E k \in ModelOrders, test \in BOOLEAN : cross_ent_call(k, test)
    \/ cross_ent_iter
    \/ cross_ent_return

SpecEval == Init /\ [][NextEval]_vars

\* ------------------------------------------------------------ claims
LastTokens(seq, k) == SubSeq(seq, Len(seq) - k + 1, Len(seq))

Returned == [kind |-> ret.kind, distr |-> ret.distr]

\* C1: for every order n and every context longer than n-1, predict returns
\* what predict returns for the last n-1 tokens of the context (for n = 1,
\* what it returns for the empty context).
C1_TruncationEquivalence ==
    (call.op = "predict" /\ Len(call.ctx) > n - 1)
        => Returned = predict(LastTokens(call.ctx, n - 1))

\* The part of C1 the code satisfies: orders n >= 2.
C1_TruncationFromOrderTwo ==
    (call.op = "predict" /\ Len(call.ctx) > n - 1 /\ n >= 2)
        => Returned = predict(LastTokens(call.ctx, n - 1))

\* C2: for a learned model and a context of length exactly n-1, the keys of
\* the mapping predict returns are exactly the words w of the vocabulary with
\* count(context + (w,)) > 0, each value is that count over the sum of the
\* kept counts, no value is <= 0, and the values of a non-empty mapping sum
\* to 1 (the numerators sum to the common denominator).
C2_Distribution ==
    (call.op = "predict" /\ learned /\ Len(call.ctx) = n - 1) =>
        LET kept == {w \in alphabet : Count(ngrams, call.ctx \o <<w>>) > 0}
            nums == [w \in DOMAIN ret.distr |-> ret.distr[w][1]]
        IN /\ ret.kind = "value"
           /\ DOMAIN ret.distr = kept
           /\ \A w \in kept :
                /\ ret.distr[w][1] = Count(ngrams, call.ctx \o <<w>>)
                /\ ret.distr[w][1] > 0
                /\ ret.distr[w][2] > 0
                /\ ret.distr[w][2] = SumValues(nums)

C2_Witness ==
    /\ call.op = "predict" /\ learned /\ Len(call.ctx) = n - 1
    /\ Cardinality(DOMAIN ret.distr) >= 2

\* C3: predict raises ValueError, and returns no mapping, exactly when the
\* context has fewer than n-1 tokens.
C3_ShortContext ==
    call.op = "predict" =>
        /\ (ret.kind = "ValueError") <=> (Len(call.ctx) < n - 1)
        /\ (ret.kind = "ValueError") => (ret.distr = <<>>)

C3_Witness ==
    call.op = "predict" /\ learned /\ Len(call.ctx) = n - 2
        /\ ret.kind = "ValueError"

\* C4: for a learned model and a context of valid length whose last n-1
\* tokens no word of the vocabulary follows in the count table, predict
\* returns the empty mapping as a normal result and raises nothing.
C4_NoPrediction ==
    (/\ call.op = "predict" /\ learned /\ Len(call.ctx) >= n - 1
     /\ \A w \in alphabet :
            Count(ngrams, LastTokens(call.ctx, n - 1) \o <<w>>) = 0)
        => (ret.kind = "value" /\ ret.distr = <<>>)

C4_Witness ==
    /\ call.op = "predict" /\ learned /\ Len(call.ctx) = n - 1
    /\ DOMAIN ngrams # {}
    /\ ret.kind = "value" /\ ret.distr = <<>>

\* C5: after a learn call the count table is exactly the multiset of the
\* n-grams of the training sentences drawn during that call (nothing of an
\* earlier call is left) and the vocabulary is the set of the tokens of the
\* whole document; so two learn calls that start from the same state of the
\* random source leave the same table and vocabulary.
Windows(sent, k) == {<<pos, SubSeq(sent, pos + 1, pos + k)>> : pos \in 0..(Len(sent) - k)}

Occurrences(g, sel) ==
    {jp \in UNION {{<<j, w[1]>> : w \in Windows(doc[sel[j]], Len(g))} :
                     j \in 1..Len(sel)} :
        /\ Len(doc[sel[jp[1]]]) >= MinSentLen
        /\ SubSeq(doc[sel[jp[1]]], jp[2] + 1, jp[2] + Len(g)) = g}

C5_LearnReplaces ==
    call.op = "learn" =>
        LET sel == get_sentences(1, call.start, FALSE).sents
            grams == UNION {{w[2] : w \in Windows(doc[i], n)} : i \in 1..Len(doc)}
        IN /\ learned
           /\ DOMAIN ngrams \subseteq grams
           /\ \A g \in grams :
                Count(ngrams, g) = Cardinality(Occurrences(g, sel))
           /\ alphabet = UNION {Range(doc[i]) : i \in 1..Len(doc)}
           /\ (prev.op = "learn" /\ prev.start = call.start)
                => (prev.ngrams = ngrams /\ prev.alphabet = alphabet)

C5_Witness ==
    /\ call.op = "learn" /\ prev.op = "learn" /\ prev.start = call.start
    /\ DOMAIN ngrams # {}
    /\ \E g \in DOMAIN ngrams : ngrams[g] >= 2

\* C6: get_ngrams(k, test) yields, for each sentence get_sentences(test)
\* selects, in sentence order, nothing if the sentence has fewer than 10 (or
\* fewer than k) tokens and otherwise the len-k+1 tuples of k consecutive
\* tokens at positions 0..len-k in increasing order; a selected sentence of
\* 10 tokens yields 8 tuples for k = 3.
TuplesOf(sent, k) ==
    IF Len(sent) < MinSentLen \/ Len(sent) < k THEN <<>>
    ELSE [i \in 1..(Len(sent) - k + 1) |-> [j \in 1..k |-> sent[i + j - 1]]]

C6_Ngrams ==
    call.op = "get_ngrams" =>
        LET sel == get_sentences(1, call.start, call.test).sents
        IN /\ ret.ngrams =
                Flatten([j \in 1..Len(sel) |-> TuplesOf(doc[sel[j]], call.k)])
           /\ (Len(sel) = 1 /\ Len(doc[sel[1]]) = 10 /\ call.k = 3)
                => Len(ret.ngrams) = 8

C6_Witness ==
    /\ call.op = "get_ngrams" /\ call.k = 3
    /\ Len(doc) = 2
    /\ Len(get_sentences(1, call.start, call.test).sents) = 1
    /\ Len(ret.ngrams) = 8

\* C7: get_sentences(test) draws exactly one sample for each sentence of the
\* document, and yields the sentence exactly when that sample is >= p with
\* test=False or < p with test=True.
C7_OneDrawPerSentence ==
    call.op = "get_sentences" =>
        /\ ret.drawn = Len(doc)
        /\ \A i \in 1..Len(doc) :
              (i \in Range(ret.sents)) <=>
                  LET sample == Sample(call.start + i - 1)
                  IN \/ (sample >= test_percentage /\ ~call.test)
                     \/ (sample < test_percentage /\ call.test)

\* C8: two enumerations get_sentences(test=False) and get_sentences(test=True)
\* that start from the same state of the random source yield disjoint sets of
\* sentences that together are all sentences of the document.  (Stated for a
\* first enumeration that draws fewer samples than the period of the stream,
\* so that the second one starts from the same state because of a reseed.)
C8_Partition ==
    (/\ call.op = "get_sentences" /\ prev.op = "get_sentences"
     /\ prev.test # call.test /\ prev.start = call.start
     /\ prev.drawn < StreamLen)
        => /\ Range(ret.sents) \cap Range(prev.sents) = {}
           /\ Range(ret.sents) \cup Range(prev.sents) = 1..Len(doc)

\* C9: cross_ent(model, corpus, k, test) scores exactly the n-grams of
\* get_ngrams(k, test) whose last token is a key of predict(first k-1
\* tokens): count is their number, the total holds -log2 of the predicted
\* probability of each, in order, and nothing of any other n-gram.
ContextOf(g) == SubSeq(g, 1, Len(g) - 1)
TargetOf(g) == g[Len(g)]
IsScored(g) == TargetOf(g) \in DOMAIN predict(ContextOf(g)).distr
Finished == call.op = "cross_ent" /\ ce.pc = "idle"
Evaluated == get_ngrams(call.k, call.test, call.start).ngrams

C9_CrossEnt ==
    (Finished /\ ret.kind = "value") =>
        LET scored == SelectSeq(Evaluated, IsScored)
        IN /\ ret.count = Len(scored)
           /\ ret.count > 0
           /\ ret.total = [i \in 1..Len(scored) |->
                             predict(ContextOf(scored[i])).distr[TargetOf(scored[i])]]

C9_Witness ==
    /\ Finished /\ ret.kind = "value" /\ call.k = n
    /\ ret.count > 0
    /\ ret.count < Len(Evaluated)

\* C10: a cross_ent call that scores no n-gram returns no (value, count)
\* pair: it ends in an error, the division by zero unless predict raised.
C10_ZeroCount ==
    (Finished /\ SelectSeq(Evaluated, IsScored) = <<>>) =>
        /\ ret.kind \in {"ZeroDivisionError", "ValueError", "TypeError"}
        /\ (\A i \in 1..Len(Evaluated) :
                predict(ContextOf(Evaluated[i])).kind = "value")
              => ret.kind = "ZeroDivisionError"

C10_Witness ==
    /\ Finished /\ learned /\ call.k = n
    /\ Evaluated # <<>>
    /\ ret.kind = "ZeroDivisionError"

====
